---- MODULE Spec2Model ----
(***************************************************************************)
(* A model of cura/files/writers/GCodeWriter.py: the g-code writer that     *)
(* appends the flattened quality profiles of the active machine to the      *)
(* g-code as a block of ";SETTING_3 " comment lines.                         *)
(*                                                                          *)
(* Python strings are sequences of one-character strings.                   *)
(***************************************************************************)
EXTENDS Integers, Sequences, FiniteSets, TLC

VARIABLES
    \* ---- the comment encoder (lines 147-161 of _serialiseSettings)
    epc,             \* position: "start", "encoded", "decoded"
    json_string,     \* the text handed to the encoder
    escaped_string,  \* json_string after the substitution of line 153
    result,          \* the block built by the loop of lines 156-160
    decoded,         \* what a reader recovers from result
    \* ---- _createFlattenedContainerInstance on its own (lines 66-81)
    fpc,        \* position: "start", "flat"
    overlay,    \* the overlay profile (instance_container1)
    base,       \* the base profile (instance_container2)
    flattened,  \* the result (flat_container)
    \* ---- write (lines 39-64) and the _serialiseSettings it calls (lines 83-161)
    pc,                \* position in write: "mode", "scene", "loop", "global", "extruders", "done"
    mode,              \* the mode argument
    scene,             \* the scene: whether it has a gcode_dict attribute, and the dict
    stack,             \* active_machine.global_stack
    stream,            \* the arguments of the calls of stream.write, in order
    gcode_list,        \* gcode_dict.get(active_build_plate, None)
    has_settings,
    idx,               \* the index of the next chunk of the for loop of line 54
    ret,               \* the value write returned
    log,               \* the calls of Logger.log, in order
    data,              \* the dictionary of line 111
    all_setting_keys,  \* the set of line 113
    queue,             \* the extruders the for loop of line 114 has yet to visit
    \* ---- the metadata dictionaries of all containers
    heap

wvars == <<pc, mode, scene, stack, stream, gcode_list, has_settings, idx, ret, log,
           data, all_setting_keys, queue>>
evars == <<epc, json_string, escaped_string, result, decoded>>
fvars == <<fpc, overlay, base, flattened>>
vars == <<evars, fvars, wvars, heap>>

None == "None"
\* the values write returns
True == "True"
False == "False"

EncIdle ==
    /\ epc = "idle" /\ json_string = None /\ escaped_string = None
    /\ result = None /\ decoded = None

FlatIdle ==
    /\ fpc = "idle" /\ overlay = None /\ base = None
    /\ flattened = None

WriteIdle ==
    /\ pc = "idle" /\ mode = None /\ scene = None /\ stack = None /\ stream = <<>>
    /\ gcode_list = None /\ has_settings = FALSE /\ idx = 0 /\ ret = None /\ log = <<>>
    /\ data = None /\ all_setting_keys = {} /\ queue = <<>>

Min(a, b) == IF a < b THEN a ELSE b

\* s[a:b] of Python, for 0 <= a <= b
Slice(s, a, b) == SubSeq(s, a + 1, Min(b, Len(s)))

RECURSIVE ConcatRange(_, _, _)
\* ss[lo] \o ... \o ss[hi], by halves
ConcatRange(ss, lo, hi) ==
    IF lo > hi THEN <<>>
    ELSE IF lo = hi THEN ss[lo]
    ELSE LET mid == (lo + hi) \div 2
         IN  ConcatRange(ss, lo, mid) \o ConcatRange(ss, mid + 1, hi)

\* "".join(ss)
Concat(ss) == ConcatRange(ss, 1, Len(ss))

(***************************************************************************)
(* Class attributes.                                                       *)
(***************************************************************************)
version == 3

_setting_keyword == <<";", "S", "E", "T", "T", "I", "N", "G", "_">>

DigitChar(d) ==
    CASE d = 0 -> "0" [] d = 1 -> "1" [] d = 2 -> "2" [] d = 3 -> "3" [] d = 4 -> "4"
      [] d = 5 -> "5" [] d = 6 -> "6" [] d = 7 -> "7" [] d = 8 -> "8" [] d = 9 -> "9"

RECURSIVE Str(_)
\* str(n) for a natural number n
Str(n) == IF n < 10 THEN <<DigitChar(n)>> ELSE Str(n \div 10) \o <<DigitChar(n % 10)>>

\* line 87
prefix == _setting_keyword \o Str(version) \o <<" ">>
\* line 88
prefix_length == Len(prefix)

LineWidth == 80

PayloadWidthNoPrefix == LineWidth
\* 80 - prefix_length of lines 159-160
PayloadWidth == LineWidth - prefix_length

(***************************************************************************)
(* Escaping: one pass of the combined pattern over the text; every match   *)
(* is one character, replaced through escape_characters.                   *)
(***************************************************************************)
EscapeCharNoBackslash(c) ==
    CASE c = "\n" -> <<"\\", "n">>
      [] c = "\r" -> <<"\\", "r">>
      [] OTHER -> <<c>>

escape_characters(c) ==
    CASE c = "\\" -> <<"\\", "\\">>
      [] c = "\n" -> <<"\\", "n">>
      [] c = "\r" -> <<"\\", "r">>
      [] OTHER -> <<c>>

\* pattern.sub(...) of line 153: every character is matched or copied once
Escape(s) == Concat([i \in 1..Len(s) |-> escape_characters(s[i])])

RECURSIVE WrapFrom(_, _)
\* the loop of lines 159-160, from position pos on
WrapFrom(escaped, pos) ==
    IF pos >= Len(escaped) THEN <<>>
    ELSE prefix \o Slice(escaped, pos, pos + PayloadWidth) \o <<"\n">>
           \o WrapFrom(escaped, pos + PayloadWidth)

\* lines 156-161
Wrap(escaped) == WrapFrom(escaped, 0)

\* lines 149-161: the encoded block of a JSON text
Encode(text) == Wrap(Escape(text))

(***************************************************************************)
(* Decoding, as the reader of the block does it: the payload of every      *)
(* line that starts with the prefix, concatenated, with the escape map     *)
(* reversed in one pass.                                                   *)
(***************************************************************************)
\* the positions of the newlines of a text, and the k-th of them
Newlines(s) == {i \in 1..Len(s) : s[i] = "\n"}
NthNewline(s, k) ==
    CHOOSE p \in Newlines(s) : Cardinality({q \in Newlines(s) : q < p}) = k - 1

\* the lines of a text, without their terminating newline
Lines(s) ==
    LET n    == Cardinality(Newlines(s))
        from(k) == IF k = 1 THEN 1 ELSE NthNewline(s, k - 1) + 1
        last == from(n + 1)
        full == [k \in 1..n |-> SubSeq(s, from(k), NthNewline(s, k) - 1)]
    IN  IF last > Len(s) THEN full ELSE Append(full, SubSeq(s, last, Len(s)))

StartsWith(s, p) == Len(s) >= Len(p) /\ SubSeq(s, 1, Len(p)) = p

\* line[prefix_length:] of every line that starts with the prefix
Payloads(ls) ==
    Concat([i \in 1..Len(ls) |->
              IF StartsWith(ls[i], prefix)
                 THEN SubSeq(ls[i], prefix_length + 1, Len(ls[i])) ELSE <<>>])

UnescapeChar(c) ==
    CASE c = "n" -> "\n" [] c = "r" -> "\r" [] OTHER -> c

RECURSIVE PairStart(_, _)
\* position i starts an escape pair of the left-to-right scan: a backslash
\* followed by an escapable character, and not itself the second of a pair
PairStart(s, i) ==
    /\ i >= 1 /\ i < Len(s)
    /\ s[i] = "\\"
    /\ s[i + 1] \in {"\\", "n", "r"}
    /\ ~PairStart(s, i - 1)

Unescape(s) ==
    Concat([i \in 1..Len(s) |->
              IF PairStart(s, i) THEN <<UnescapeChar(s[i + 1])>>
              ELSE IF PairStart(s, i - 1) THEN <<>>
              ELSE <<s[i]>>])

Decode(block) == Unescape(Payloads(Lines(block)))

(***************************************************************************)
(* The encoder on its own: a text, its block, and the text read back.      *)
(***************************************************************************)
MaxTail == 3
FillLen == 66

Alphabet == {"\\", "\n", "\r", "n", "r", "a"}

RECURSIVE Texts(_)
\* the texts over Alphabet of length at most n
Texts(n) ==
    IF n = 0 THEN {<<>>}
    ELSE Texts(n - 1) \cup {Append(t, c) : t \in {u \in Texts(n - 1) : Len(u) = n - 1}, c \in Alphabet}

Fill(n) == [i \in 1..n |-> "a"]

\* a text: an optional first character, a run of ordinary characters that
\* reaches the end of the first or of the second line, and a free tail
EncoderInputs ==
    {h \o Fill(n) \o t :
        h \in {<<>>} \cup {<<c>> : c \in Alphabet},
        n \in {0, FillLen, FillLen + PayloadWidth},
        t \in Texts(MaxTail)}

EncInit ==
    /\ epc = "start"
    /\ json_string \in EncoderInputs
    /\ escaped_string = None
    /\ result = None
    /\ decoded = None
    /\ FlatIdle
    /\ WriteIdle
    /\ heap = <<>>

\* lines 149-161
EncodeBlock ==
    /\ epc = "start"
    /\ escaped_string' = Escape(json_string)
    /\ result' = Wrap(escaped_string')
    /\ epc' = "encoded"
    /\ UNCHANGED <<json_string, decoded, fvars, wvars, heap>>

ReadBack ==
    /\ epc = "encoded"
    /\ decoded' = Decode(result)
    /\ epc' = "decoded"
    /\ UNCHANGED <<json_string, escaped_string, result, fvars, wvars, heap>>

EncNext == EncodeBlock \/ ReadBack

SpecEncoder == EncInit /\ [][EncNext]_vars

\* C2: decoding the block of any text gives the text back
RoundTrip == epc = "decoded" => decoded = json_string

\* an escape pair lies across the end of the first line
SplitPair ==
    /\ Len(escaped_string) > PayloadWidth
    /\ escaped_string[PayloadWidth] = "\\"
    /\ \E k \in 1..Len(json_string) :
          /\ json_string[k] \in {"\\", "\n", "\r"}
          /\ Len(Escape(SubSeq(json_string, 1, k))) = PayloadWidth + 1

RoundTripWitness == epc = "decoded" /\ decoded = json_string /\ SplitPair

\* C3: every line of the block is the prefix and a payload, at most 80
\* characters long, and all lines but the last have the same length
LineWidthOk ==
    epc # "start" =>
        LET ls == Lines(result) IN
        /\ Concat([i \in 1..Len(ls) |-> Append(ls[i], "\n")]) = result
        /\ \A i \in 1..Len(ls) :
              /\ StartsWith(ls[i], prefix)
              /\ Len(ls[i]) <= LineWidth
              /\ Len(ls[i]) > prefix_length
              /\ i < Len(ls) => Len(ls[i]) = Len(ls[1])

LineWidthWitness ==
    /\ epc = "encoded"
    /\ Len(Lines(result)) = 3
    /\ Len(Lines(result)[3]) < Len(Lines(result)[2])
    /\ Len(Lines(result)[1]) = LineWidth
(***************************************************************************)
(* Instance containers.  A container is a record: a reference to its       *)
(* metadata dictionary and its "value" properties.  The metadata includes  *)
(* the id, the name and the definition of the container (line 69).         *)
(* Metadata dictionaries are mutable objects: heap is the sequence of all  *)
(* of them and a reference is an index into it, so that two containers     *)
(* sharing one dictionary can be told from two containers with equal       *)
(* dictionaries.                                                           *)
(***************************************************************************)
EmptyDict == [k \in {} |-> None]

\* dict.get(key, default)
Get(d, key, default) == IF key \in DOMAIN d THEN d[key] ELSE default

\* d[key] = value
Put(d, key, value) == [k \in DOMAIN d \cup {key} |-> IF k = key THEN value ELSE d[k]]

\* InstanceContainer(container_id): a new container without properties, with
\* a metadata dictionary of its own that holds the id and the name; the
\* result is the container and the heap afterwards
InstanceContainer(container_id, h) ==
    [container |-> [metadata |-> Len(h) + 1, values |-> EmptyDict],
     heap |-> Append(h, [k \in {"id", "name"} |-> container_id])]

\* container.setMetaData(metadata): the container refers to that dictionary
setMetaData(container, ref) == [container EXCEPT !.metadata = ref]

\* container.getMetaDataEntry(key, default)
getMetaDataEntry(container, h, key, default) == Get(h[container.metadata], key, default)

\* container.getId()
getId(container, h) == h[container.metadata]["id"]

\* container.getName()
getName(container, h) == h[container.metadata]["name"]

\* container.getDefinition(), as the id of the definition: None without one
getDefinition(container, h) == getMetaDataEntry(container, h, "definition", None)

\* container.addMetaDataEntry(key, value): the heap afterwards
addMetaDataEntry(container, h, key, value) ==
    IF key \in DOMAIN h[container.metadata] THEN h
    ELSE [h EXCEPT ![container.metadata] = Put(@, key, value)]

\* container.setMetaDataEntry(key, value): the heap afterwards
setMetaDataEntry(container, h, key, value) ==
    [h EXCEPT ![container.metadata] = Put(@, key, value)]

\* container.setDefinition(definition_id): the heap afterwards
setDefinition(container, h, definition_id) ==
    setMetaDataEntry(container, h, "definition", definition_id)

\* container.setProperty(key, "value", value) on the properties of a container
setProperty(values, key, value) == Put(values, key, value)

RECURSIVE CopyProperties(_, _, _)
\* for key in source.getAllKeys(): setProperty(key, "value", source.getProperty(key, "value"))
CopyProperties(values, source, keys) ==
    IF keys = {} THEN values
    ELSE LET key == CHOOSE k \in keys : TRUE
         IN  CopyProperties(setProperty(values, key, source[key]), source, keys \ {key})

FlattenedValuesBaseLast(instance_container1, instance_container2) ==
    CopyProperties(
        CopyProperties(EmptyDict, instance_container1.values, DOMAIN instance_container1.values),
        instance_container2.values, DOMAIN instance_container2.values)

\* lines 75-79: the properties of instance_container2, then those of instance_container1
FlattenedValues(instance_container1, instance_container2) ==
    CopyProperties(
        CopyProperties(EmptyDict, instance_container2.values, DOMAIN instance_container2.values),
        instance_container1.values, DOMAIN instance_container1.values)

FlattenedMetaDataShared(instance_container2, h) ==
    [ref |-> instance_container2.metadata, heap |-> h]

\* line 70: setMetaData(copy.deepcopy(instance_container2.getMetaData())): a new dictionary
FlattenedMetaData(instance_container2, h) ==
    [ref |-> Len(h) + 1, heap |-> Append(h, h[instance_container2.metadata])]

\* lines 66-81; the result is the new container and the heap afterwards
_createFlattenedContainerInstance(instance_container1, instance_container2, h) ==
    LET \* line 67
        new == InstanceContainer(getName(instance_container2, h), h)
        \* line 70
        md == FlattenedMetaData(instance_container2, new.heap)
        with_metadata == setMetaData(new.container, md.ref)
        \* lines 72-73
        definition_id == getDefinition(instance_container1, md.heap)
        h1 == IF definition_id # None
                 THEN setDefinition(with_metadata, md.heap, definition_id)
                 ELSE md.heap
        \* lines 75-79
        flat_container ==
            [with_metadata EXCEPT
                !.values = FlattenedValues(instance_container1, instance_container2)]
    IN  [container |-> flat_container, heap |-> h1]

(***************************************************************************)
(* Python strings that are kept whole in the model, as character sequences *)
(***************************************************************************)
Chars(s) ==
    CASE s = "type" -> <<"t", "y", "p", "e">>
      [] s = "quality_type" -> <<"q", "u", "a", "l", "i", "t", "y", "_", "t", "y", "p", "e">>
      [] s = "position" -> <<"p", "o", "s", "i", "t", "i", "o", "n">>
      [] s = "definition" -> <<"d", "e", "f", "i", "n", "i", "t", "i", "o", "n">>
      [] s = "quality_changes" -> <<"q", "u", "a", "l", "i", "t", "y", "_", "c", "h", "a", "n", "g", "e", "s">>
      [] s = "normal" -> <<"n", "o", "r", "m", "a", "l">>
      [] s = "fast" -> <<"f", "a", "s", "t">>
      [] s = "draft" -> <<"d", "r", "a", "f", "t">>
      [] s = "user" -> <<"u", "s", "e", "r">>
      [] s = "0" -> <<"0">>
      [] s = "1" -> <<"1">>
      [] s = "2" -> <<"2">>
      [] s = "10" -> <<"1", "0">>
      [] s = "fdmprinter" -> <<"f", "d", "m", "p", "r", "i", "n", "t", "e", "r">>
      [] s = "Fine" -> <<"F", "i", "n", "e">>
      [] s = "Fine #2" -> <<"F", "i", "n", "e", " ", "#", "2">>
      [] s = "Custom" -> <<"C", "u", "s", "t", "o", "m">>
      [] s = "Café" -> <<"C", "a", "f", "é">>
      [] s = "layer_height" -> <<"l", "a", "y", "e", "r", "_", "h", "e", "i", "g", "h", "t">>
      [] s = "infill" -> <<"i", "n", "f", "i", "l", "l">>
      [] s = "0.2" -> <<"0", ".", "2">>
      [] s = "0.1" -> <<"0", ".", "1">>
      [] s = "20" -> <<"2", "0">>
      [] s = "[general]" -> <<"[", "g", "e", "n", "e", "r", "a", "l", "]">>
      [] s = "[metadata]" -> <<"[", "m", "e", "t", "a", "d", "a", "t", "a", "]">>
      [] s = "[values]" -> <<"[", "v", "a", "l", "u", "e", "s", "]">>
      [] s = "name" -> <<"n", "a", "m", "e">>
      [] s = " = " -> <<" ", "=", " ">>
      [] s = "global_quality" -> <<"g", "l", "o", "b", "a", "l", "_", "q", "u", "a", "l", "i", "t", "y">>
      [] s = "extruder_quality" -> <<"e", "x", "t", "r", "u", "d", "e", "r", "_", "q", "u", "a", "l", "i", "t", "y">>

(***************************************************************************)
(* _createFlattenedContainerInstance on its own: an overlay and a base,    *)
(* the flattened container, and the edits _serialiseSettings makes to the  *)
(* metadata of the flattened container afterwards (lines 99-108).          *)
(***************************************************************************)
SettingKeys == {"layer_height", "infill"}
SettingValues == {"0.1", "0.2"}

\* the dictionaries with keys among K and values among V
Dicts(K, V) == UNION {[D -> V] : D \in SUBSET K}

\* the metadata of a container besides its id, name and definition
MetaDicts ==
    { EmptyDict,
      [k \in {"type"} |-> "user"],
      [k \in {"type", "quality_type"} |-> IF k = "type" THEN "quality_changes" ELSE "draft"],
      [k \in {"quality_type", "position"} |-> IF k = "position" THEN "1" ELSE "fast"] }

\* a metadata dictionary: the id and the name, the definition when there is
\* one, and the other entries
MetaData(container_id, definition_id, others) ==
    LET identified == Put(Put(others, "id", container_id), "name", container_id)
    IN  IF definition_id = None THEN identified
        ELSE Put(identified, "definition", definition_id)

FlatInit ==
    /\ fpc = "start"
    /\ \E m1 \in MetaDicts, m2 \in MetaDicts,
          d1 \in {None, "ultimaker3"}, d2 \in {None, "ultimaker2"} :
          heap = <<MetaData("user", d1, m1), MetaData("Custom", d2, m2)>>
    /\ \E v \in Dicts(SettingKeys, SettingValues) :
          overlay = [metadata |-> 1, values |-> v]
    /\ \E v \in Dicts(SettingKeys, SettingValues) :
          base = [metadata |-> 2, values |-> v]
    /\ flattened = None
    /\ EncIdle
    /\ WriteIdle

\* lines 66-81
CreateFlattened ==
    /\ fpc = "start"
    /\ LET r == _createFlattenedContainerInstance(overlay, base, heap)
       IN  /\ flattened' = r.container
           /\ heap' = r.heap
    /\ fpc' = "flat"
    /\ UNCHANGED <<overlay, base, evars, wvars>>

\* lines 99-104, 123-132: an entry is added to the flattened container when absent
FixupAdd ==
    /\ fpc = "flat"
    /\ \E e \in {<<"type", "quality_changes">>, <<"quality_type", "normal">>, <<"position", "0">>} :
          /\ getMetaDataEntry(flattened, heap, e[1], None) = None
          /\ heap' = addMetaDataEntry(flattened, heap, e[1], e[2])
    /\ UNCHANGED <<fvars, evars, wvars>>

\* lines 108, 135: the definition entry of the flattened container is overwritten
FixupDefinition ==
    /\ fpc = "flat"
    /\ heap' = setMetaDataEntry(flattened, heap, "definition", "fdmprinter")
    /\ UNCHANGED <<fvars, evars, wvars>>

FlatNext == CreateFlattened \/ FixupAdd \/ FixupDefinition

SpecFlatten == FlatInit /\ [][FlatNext]_vars

\* C6: the keys of the flattened container are those of the overlay and of
\* the base; a key of the overlay has the overlay's value, a key of the base
\* alone has the base's value
FlattenPrecedence ==
    fpc = "flat" =>
        /\ DOMAIN flattened.values =
              DOMAIN overlay.values \cup DOMAIN base.values
        /\ \A k \in DOMAIN overlay.values :
              flattened.values[k] = overlay.values[k]
        /\ \A k \in DOMAIN base.values \ DOMAIN overlay.values :
              flattened.values[k] = base.values[k]

FlattenPrecedenceWitness ==
    /\ fpc = "flat"
    /\ \E k \in DOMAIN overlay.values \cap DOMAIN base.values :
          overlay.values[k] # base.values[k]
    /\ DOMAIN base.values \ DOMAIN overlay.values # {}

\* C9 as stated: flattening gives the result the metadata of the base,
\* whatever the metadata of the overlay, and no step, flattening or a later
\* edit of the result, changes the metadata of the base
MetadataEqualsBase ==
    [][ /\ fpc = "start" =>
             heap'[flattened'.metadata] = heap[base.metadata]
        /\ heap'[base.metadata] = heap[base.metadata]
      ]_vars

\* C9, amended: flattening gives the result the metadata of the base, but
\* for the definition entry, which is that of the overlay when the overlay
\* has one and that of the base otherwise; no other metadata of the overlay
\* reaches the result, and no step, flattening or a later edit of the
\* result, changes the metadata of the base or of the overlay
MetadataSource ==
    [][ /\ fpc = "start" =>
             LET m == heap'[flattened'.metadata]
                 b == heap[base.metadata]
                 o == heap[overlay.metadata]
             IN  /\ DOMAIN m = DOMAIN b \cup (DOMAIN o \cap {"definition"})
                 /\ \A k \in DOMAIN m \ {"definition"} : m[k] = b[k]
                 /\ "definition" \in DOMAIN m =>
                       m["definition"] = IF "definition" \in DOMAIN o
                                            THEN o["definition"] ELSE b["definition"]
        /\ heap'[base.metadata] = heap[base.metadata]
        /\ heap'[overlay.metadata] = heap[overlay.metadata]
      ]_vars

\* the overlay and the base have different definitions and the overlay has
\* a type the base lacks; the result has the definition of the overlay and
\* a type that was added to it after flattening
MetadataSourceWitness ==
    /\ fpc = "flat"
    /\ "definition" \in DOMAIN heap[overlay.metadata]
    /\ "definition" \in DOMAIN heap[base.metadata]
    /\ heap[overlay.metadata]["definition"] # heap[base.metadata]["definition"]
    /\ heap[flattened.metadata]["definition"] = heap[overlay.metadata]["definition"]
    /\ Get(heap[overlay.metadata], "type", None) = "user"
    /\ "type" \notin DOMAIN heap[base.metadata]
    /\ Get(heap[flattened.metadata], "type", None) = "quality_changes"
    /\ heap[flattened.metadata]["id"] = heap[base.metadata]["id"]
(***************************************************************************)
(* Serialisation of a container and of the document.                       *)
(***************************************************************************)
\* the entries of the metadata section; the name and the definition are in
\* the general section
MetaKeyOrder == <<"type", "quality_type", "position">>
SettingKeyOrder == <<"layer_height", "infill">>

\* the "key = value" lines of a dictionary, in the order given
SerializeDict(d, order) ==
    Concat([i \in 1..Len(order) |->
              IF order[i] \in DOMAIN d
                 THEN Chars(order[i]) \o Chars(" = ") \o Chars(d[order[i]]) \o <<"\n">>
                 ELSE <<>>])

\* container.serialize(): the sections general, metadata and values
serialize(container, h) ==
    Chars("[general]") \o <<"\n">>
      \o Chars("name") \o Chars(" = ") \o Chars(getName(container, h)) \o <<"\n">>
      \o (IF getDefinition(container, h) = None THEN <<>>
          ELSE Chars("definition") \o Chars(" = ") \o Chars(getDefinition(container, h))
                 \o <<"\n">>)
      \o <<"\n">> \o Chars("[metadata]") \o <<"\n">>
      \o SerializeDict(h[container.metadata], MetaKeyOrder)
      \o <<"\n">> \o Chars("[values]") \o <<"\n">>
      \o SerializeDict(container.values, SettingKeyOrder)
      \o <<"\n">>

\* the characters json.dumps copies: those from space to tilde, but for
\* the quote and the backslash, which it escapes (the set is without the
\* backquote, which no string of this module can hold)
AsciiPrintable ==
    { " ", "!", "\"", "#", "$", "%", "&", "'", "(", ")", "*", "+", ",", "-", ".", "/",
      "0", "1", "2", "3", "4", "5", "6", "7", "8", "9", ":", ";", "<", "=", ">", "?",
      "@", "A", "B", "C", "D", "E", "F", "G", "H", "I", "J", "K", "L", "M", "N", "O",
      "P", "Q", "R", "S", "T", "U", "V", "W", "X", "Y", "Z", "[", "\\", "]", "^", "_",
      "a", "b", "c", "d", "e", "f", "g", "h", "i", "j", "k", "l", "m", "n", "o",
      "p", "q", "r", "s", "t", "u", "v", "w", "x", "y", "z", "{", "|", "}", "~" }

\* ord(c), for the characters outside AsciiPrintable that the model holds
Ord(c) ==
    CASE c = "\t" -> 9 [] c = "\n" -> 10 [] c = "\f" -> 12 [] c = "\r" -> 13
      [] c = "é" -> 233 [] c = "€" -> 8364

HexDigit(d) ==
    CASE d < 10 -> DigitChar(d)
      [] d = 10 -> "a" [] d = 11 -> "b" [] d = 12 -> "c"
      [] d = 13 -> "d" [] d = 14 -> "e" [] d = 15 -> "f"

\* '\\u{0:04x}'.format(n)
UnicodeEscape(n) ==
    <<"\\", "u", HexDigit((n \div 4096) % 16), HexDigit((n \div 256) % 16),
      HexDigit((n \div 16) % 16), HexDigit(n % 16)>>

\* the escape of a character by its code point: \b, \uXXXX, or a surrogate
\* pair of two \uXXXX above the basic plane
EscapeCodePoint(n) ==
    IF n = 8 THEN <<"\\", "b">>
    ELSE IF n < 65536 THEN UnicodeEscape(n)
    ELSE UnicodeEscape(55296 + (((n - 65536) \div 1024) % 1024))
           \o UnicodeEscape(56320 + ((n - 65536) % 1024))

\* json.dumps of one character of a string (ensure_ascii is on)
JsonEscapeChar(c) ==
    CASE c = "\"" -> <<"\\", "\"">>
      [] c = "\\" -> <<"\\", "\\">>
      [] c = "\n" -> <<"\\", "n">>
      [] c = "\r" -> <<"\\", "r">>
      [] c = "\t" -> <<"\\", "t">>
      [] c = "\f" -> <<"\\", "f">>
      [] OTHER -> IF c \in AsciiPrintable THEN <<c>> ELSE EscapeCodePoint(Ord(c))

\* json.dumps of a string
JsonString(s) == <<"\"">> \o Concat([i \in 1..Len(s) |-> JsonEscapeChar(s[i])]) \o <<"\"">>

\* json.dumps of a list of strings
JsonList(ss) ==
    <<"[">> \o Concat([i \in 1..Len(ss) |->
                         (IF i = 1 THEN <<>> ELSE <<",", " ">>) \o JsonString(ss[i])])
            \o <<"]">>

\* line 147: json.dumps(data)
JsonDumps(d) ==
    <<"{">> \o JsonString(Chars("global_quality")) \o <<":", " ">> \o JsonString(d["global_quality"])
      \o (IF "extruder_quality" \in DOMAIN d
             THEN <<",", " ">> \o JsonString(Chars("extruder_quality")) \o <<":", " ">>
                    \o JsonList(d["extruder_quality"])
             ELSE <<>>)
      \o <<"}">>

(***************************************************************************)
(* The collaborators of _serialiseSettings.                                *)
(***************************************************************************)
\* container_registry.uniqueName(name): the name, numbered when it is taken
uniqueName(name, taken) == IF name \in taken THEN name \o " #2" ELSE name

\* quality_manager.createQualityChangesContainer(quality_type, new_name, stack, None):
\* a new container of that name with the quality type, and no properties
createQualityChangesContainer(quality_type, new_name, h) ==
    LET new == InstanceContainer(new_name, h)
    IN  [container |-> new.container,
         heap |-> IF quality_type = None THEN new.heap
                  ELSE addMetaDataEntry(new.container, new.heap, "quality_type", quality_type)]

\* getMachineDefinitionIDForQualitySearch(definition)
getMachineDefinitionIDForQualitySearch(definition) == definition.quality_definition

RECURSIVE ParseInt(_)
\* int(s) for a string s of decimal digits
ParseInt(cs) ==
    IF cs = <<>> THEN 0
    ELSE 10 * ParseInt(SubSeq(cs, 1, Len(cs) - 1))
           + (CHOOSE d \in 0..9 : DigitChar(d) = cs[Len(cs)])

\* the key of line 114
PositionKey(extruder, h) == ParseInt(Chars(getMetaDataEntry(extruder, h, "position", None)))

RECURSIVE Insert(_, _, _)
\* e put into a list sorted by position, behind the entries that are not larger
Insert(sorted, e, h) ==
    IF sorted = <<>> THEN <<e>>
    ELSE IF PositionKey(e, h) < PositionKey(Head(sorted), h) THEN <<e>> \o sorted
    ELSE <<Head(sorted)>> \o Insert(Tail(sorted), e, h)

RECURSIVE SortFrom(_, _, _)
SortFrom(extruders, i, h) ==
    IF i = 0 THEN <<>> ELSE Insert(SortFrom(extruders, i - 1, h), extruders[i], h)

IterationOrder(extruders, h) == extruders

\* line 114: sorted(stack.extruders.values(), key = lambda k: int(k.getMetaDataEntry("position")))
SortedExtruders(extruders, h) == SortFrom(extruders, Len(extruders), h)

(***************************************************************************)
(* _serialiseSettings, by parts.                                           *)
(***************************************************************************)
\* lines 92-95 and 116-119: the quality changes to flatten; the quality type
\* and the name are those of the global stack for an extruder too
ResolveQualityChanges(container_with_profile, stk, h) ==
    IF getId(container_with_profile, h) = "empty_quality_changes"
       THEN createQualityChangesContainer(
                getMetaDataEntry(stk.quality, h, "quality_type", None),
                uniqueName(getName(stk.quality, h), {getName(stk.quality, h)}), h)
       ELSE [container |-> container_with_profile, heap |-> h]

\* lines 99-100, 123-124 and the like: add an entry where there is none
Default(container, h, key, value) ==
    IF getMetaDataEntry(container, h, key, None) = None
       THEN addMetaDataEntry(container, h, key, value) ELSE h

\* lines 90-108: the flattened global container and the heap afterwards
FlatGlobalContainer(stk, h) ==
    LET q  == ResolveQualityChanges(stk.qualityChanges, stk, h)
        f  == _createFlattenedContainerInstance(stk.userChanges, q.container, q.heap)
        h1 == Default(f.container, f.heap, "type", "quality_changes")
        h2 == Default(f.container, h1, "quality_type",
                      getMetaDataEntry(stk.quality, h1, "quality_type", "normal"))
        h3 == setMetaDataEntry(f.container, h2, "definition",
                               getMachineDefinitionIDForQualitySearch(stk.definition))
    IN  [container |-> f.container, heap |-> h3]

\* lines 115-135: the flattened container of an extruder and the heap afterwards
FlatExtruderQuality(extruder, stk, h) ==
    LET q  == ResolveQualityChanges(extruder.qualityChanges, stk, h)
        f  == _createFlattenedContainerInstance(extruder.userChanges, q.container, q.heap)
        h1 == Default(f.container, f.heap, "type", "quality_changes")
        h2 == Default(f.container, h1, "position",
                      getMetaDataEntry(extruder, h1, "position", None))
        h3 == Default(f.container, h2, "quality_type",
                      getMetaDataEntry(extruder.quality, h2, "quality_type", "normal"))
        h4 == setMetaDataEntry(f.container, h3, "definition",
                               getMachineDefinitionIDForQualitySearch(stk.definition))
    IN  [container |-> f.container, heap |-> h4]

\* line 138: data.setdefault("extruder_quality", []).append(extruder_serialized)
AppendExtruderQuality(d, extruder_serialized) ==
    Put(d, "extruder_quality",
        Append(Get(d, "extruder_quality", <<>>), extruder_serialized))

AlwaysProfiles(keys) == FALSE
\* line 143: not all_setting_keys
NoProfiles(keys) == keys = {}

(***************************************************************************)
(* write.                                                                  *)
(***************************************************************************)
TextMode == "TextMode"
BinaryMode == "BinaryMode"

active_build_plate == 0

AnyMode(m) == TRUE
\* line 40, negated: the mode is the one write supports
SupportedMode(m) == m = TextMode

StartsWithKeywordLastOnly(has, gcode) ==
    Slice(gcode, 0, Len(_setting_keyword)) = _setting_keyword

\* lines 55-56: has_settings after a chunk has been looked at
Scan(has, gcode) ==
    IF Slice(gcode, 0, Len(_setting_keyword)) = _setting_keyword THEN TRUE ELSE has

ChunkFromEnd(list, i) == list[Len(list) - i + 1]
\* line 54: the chunk of the i-th iteration of the for loop
Chunk(list, i) == list[i]

SilentError(l, message) == l
\* line 41: Logger.log("e", message)
LogError(l, message) == Append(l, [level |-> "e", message |-> message])

\* line 144: Logger.log("i", message)
LogInfo(l, message) == Append(l, [level |-> "i", message |-> message])

\* line 40-42
WriteMode ==
    /\ pc = "mode"
    /\ IF ~SupportedMode(mode)
          THEN /\ log' = LogError(log, "GCodeWriter does not support non-text mode.")
               /\ ret' = False
               /\ pc' = "done"
          ELSE /\ pc' = "scene"
               /\ UNCHANGED <<log, ret>>
    /\ UNCHANGED <<mode, scene, stack, stream, gcode_list, has_settings, idx,
                   data, all_setting_keys, queue, heap, evars, fvars>>

\* lines 46-53, and line 64 when there is no list
WriteScene ==
    /\ pc = "scene"
    /\ IF ~scene.has_gcode_dict
          THEN /\ ret' = False
               /\ pc' = "done"
               /\ UNCHANGED <<gcode_list, has_settings, idx>>
          ELSE /\ gcode_list' = Get(scene.gcode_dict, active_build_plate, None)
               /\ IF gcode_list' = None
                     THEN /\ ret' = False
                          /\ pc' = "done"
                          /\ UNCHANGED <<has_settings, idx>>
                     ELSE /\ has_settings' = FALSE
                          /\ idx' = 1
                          /\ pc' = "loop"
                          /\ UNCHANGED ret
    /\ UNCHANGED <<mode, scene, stack, stream, log, data, all_setting_keys, queue,
                   heap, evars, fvars>>

\* lines 54-57: one iteration of the loop over the chunks
WriteChunk ==
    /\ pc = "loop"
    /\ idx <= Len(gcode_list)
    /\ LET gcode == Chunk(gcode_list, idx)
       IN  /\ has_settings' = Scan(has_settings, gcode)
           /\ stream' = Append(stream, gcode)
    /\ idx' = idx + 1
    /\ UNCHANGED <<pc, mode, scene, stack, gcode_list, ret, log, data, all_setting_keys,
                   queue, heap, evars, fvars>>

\* lines 59 and 62: after the loop, with settings in the chunks
WriteHasSettings ==
    /\ pc = "loop"
    /\ idx > Len(gcode_list)
    /\ has_settings
    /\ ret' = True
    /\ pc' = "done"
    /\ UNCHANGED <<mode, scene, stack, stream, gcode_list, has_settings, idx, log, data,
                   all_setting_keys, queue, heap, evars, fvars>>

\* lines 59-60 and 84-114: _serialiseSettings is called; the global container
WriteSerialiseGlobal ==
    /\ pc = "loop"
    /\ idx > Len(gcode_list)
    /\ ~has_settings
    /\ LET f == FlatGlobalContainer(stack, heap)
       IN  /\ heap' = f.heap
           /\ data' = [k \in {"global_quality"} |-> serialize(f.container, f.heap)]
           /\ all_setting_keys' = DOMAIN f.container.values
           /\ queue' = SortedExtruders(stack.extruders, f.heap)
    /\ pc' = "extruders"
    /\ UNCHANGED <<mode, scene, stack, stream, gcode_list, has_settings, idx, ret, log,
                   evars, fvars>>

\* lines 115-140: one iteration of the loop over the extruders
WriteSerialiseExtruder ==
    /\ pc = "extruders"
    /\ queue # <<>>
    /\ LET f == FlatExtruderQuality(Head(queue), stack, heap)
       IN  /\ heap' = f.heap
           /\ data' = AppendExtruderQuality(data, serialize(f.container, f.heap))
           /\ all_setting_keys' = all_setting_keys \cup DOMAIN f.container.values
    /\ queue' = Tail(queue)
    /\ UNCHANGED <<pc, mode, scene, stack, stream, gcode_list, has_settings, idx, ret,
                   log, evars, fvars>>

\* lines 142-161, then lines 61-62: the block is built, written and write returns
WriteSettings ==
    /\ pc = "extruders"
    /\ queue = <<>>
    /\ IF NoProfiles(all_setting_keys)
          THEN /\ log' = LogInfo(log, "No custom settings found, not writing settings to g-code.")
               /\ stream' = Append(stream, <<>>)
          ELSE /\ stream' = Append(stream, Encode(JsonDumps(data)))
               /\ UNCHANGED log
    /\ ret' = True
    /\ pc' = "done"
    /\ UNCHANGED <<mode, scene, stack, gcode_list, has_settings, idx, data,
                   all_setting_keys, queue, heap, evars, fvars>>

(***************************************************************************)
(* The inputs of write: the mode, the scene with its chunks, and the       *)
(* machine with its containers.                                            *)
(***************************************************************************)
MaxChunks == 2
MaxExtruders == 2

GPlain == <<"G", "1", "\n">>
\* a chunk that is a line of an embedded block
GSettings == _setting_keyword \o <<"3", " ", "x", "\n">>
\* a chunk that is a line of a block of another version
GOtherVersion == _setting_keyword \o <<"1", "2", " ", "y", "\n">>
\* a chunk with a line of an embedded block behind another line
GInner == GPlain \o GSettings

Chunks == {GPlain, GSettings, GOtherVersion, GInner}

RECURSIVE ChunkLists(_)
ChunkLists(n) ==
    IF n = 0 THEN {<<>>}
    ELSE ChunkLists(n - 1)
           \cup {Append(l, c) : l \in {m \in ChunkLists(n - 1) : Len(m) = n - 1}, c \in Chunks}

Scenes ==
    {[has_gcode_dict |-> FALSE, gcode_dict |-> EmptyDict],
     [has_gcode_dict |-> TRUE, gcode_dict |-> EmptyDict],
     [has_gcode_dict |-> TRUE, gcode_dict |-> [k \in {1} |-> <<GPlain>>]]}
      \cup {[has_gcode_dict |-> TRUE, gcode_dict |-> [k \in {active_build_plate} |-> l]] :
              l \in ChunkLists(MaxChunks)}

\* a scene whose gcode_dict holds None for the build plate
SceneOfNone ==
    [has_gcode_dict |-> TRUE, gcode_dict |-> [k \in {active_build_plate} |-> None]]

\* the positions of the extruder stacks, as the metadata holds them
Positions == <<"0", "2", "10">>

\* the metadata dictionaries of the containers of the machine
MachineHeap ==
    << \* 1: the global quality
       MetaData("Fine", None, [k \in {"quality_type"} |-> "fast"]),
       \* 2: empty_quality_changes
       MetaData("empty_quality_changes", None, EmptyDict),
       \* 3: the user changes
       MetaData("user", "ultimaker3", [k \in {"type"} |-> "user"]),
       \* 4: custom global quality changes
       MetaData("Café", None, [k \in {"type", "quality_type"} |->
                                  IF k = "type" THEN "quality_changes" ELSE "draft"]),
       \* 5: the quality of an extruder
       MetaData("Fine", None, EmptyDict),
       \* 6: custom extruder quality changes
       MetaData("Custom", "ultimaker2", [k \in {"quality_type"} |-> "draft"]) >>
      \* the extruder stacks
      \o [i \in 1..Len(Positions) |-> [k \in {"position"} |-> Positions[i]]]

\* the container with the md-th metadata dictionary
Container(md, values) == [metadata |-> md, values |-> values]

EmptyQualityChanges == Container(2, EmptyDict)

\* the containers of the global stack: nothing custom, user changes, custom quality changes
GlobalKinds ==
    {[userChanges |-> Container(3, EmptyDict), qualityChanges |-> EmptyQualityChanges],
     [userChanges |-> Container(3, [k \in {"layer_height"} |-> "0.2"]),
      qualityChanges |-> EmptyQualityChanges],
     [userChanges |-> Container(3, [k \in {"layer_height"} |-> "0.2"]),
      qualityChanges |-> Container(4, [k \in {"layer_height", "infill"} |->
                                                   IF k = "infill" THEN "20" ELSE "0.1"])]}

\* the extruder stack at Positions[i]
Extruder(i, userValues, custom) ==
    [metadata |-> 6 + i,
     quality |-> Container(5, EmptyDict),
     userChanges |-> Container(3, userValues),
     qualityChanges |-> IF custom THEN Container(6, [k \in {"infill"} |-> "20"])
                        ELSE EmptyQualityChanges]

RECURSIVE ExtruderLists(_, _)
\* the lists of at most n extruder stacks at different positions, in any order
ExtruderLists(n, custom) ==
    IF n = 0 THEN {<<>>}
    ELSE ExtruderLists(n - 1, custom)
           \cup {Append(l, Extruder(i, v, custom)) :
                    l \in {m \in ExtruderLists(n - 1, custom) : Len(m) = n - 1},
                    i \in 1..Len(Positions),
                    v \in {EmptyDict, [k \in {"infill"} |-> "20"]}}

DistinctPositions(l) == \A i, j \in 1..Len(l) : i # j => l[i].metadata # l[j].metadata

Stacks ==
    {[quality |-> Container(1, EmptyDict),
      qualityChanges |-> g.qualityChanges,
      userChanges |-> g.userChanges,
      definition |-> [id |-> "ultimaker3", quality_definition |-> "fdmprinter"],
      extruders |-> l] :
        g \in GlobalKinds,
        l \in {m \in ExtruderLists(MaxExtruders, FALSE) \cup ExtruderLists(MaxExtruders, TRUE) :
                 DistinctPositions(m)}}

Init ==
    /\ pc = "mode"
    /\ mode \in {TextMode, BinaryMode}
    /\ scene \in Scenes \/ scene = SceneOfNone
    /\ stack \in Stacks
    /\ heap = MachineHeap
    /\ stream = <<>>
    /\ gcode_list = None
    /\ has_settings = FALSE
    /\ idx = 0
    /\ ret = None
    /\ log = <<>>
    /\ data = None
    /\ all_setting_keys = {}
    /\ queue = <<>>
    /\ EncIdle
    /\ FlatIdle

Next ==
    \/ WriteMode
    \/ WriteScene
    \/ WriteChunk
    \/ WriteHasSettings
    \/ WriteSerialiseGlobal
    \/ WriteSerialiseExtruder
    \/ WriteSettings

Spec == Init /\ [][Next]_vars

(***************************************************************************)
(* Properties of write.                                                    *)
(***************************************************************************)
\* the chunks of the requested build plate, when there are any
NoContent ==
    \/ ~scene.has_gcode_dict
    \/ Get(scene.gcode_dict, active_build_plate, None) = None
InputChunks == scene.gcode_dict[active_build_plate]
Writable == mode = TextMode /\ ~NoContent

\* the chunk has a line that begins with the keyword
HasKeywordLine(chunk) ==
    \E i \in 1..Len(chunk) :
        /\ i = 1 \/ chunk[i - 1] = "\n"
        /\ i + Len(_setting_keyword) - 1 <= Len(chunk)
        /\ SubSeq(chunk, i, i + Len(_setting_keyword) - 1) = _setting_keyword

\* the chunk itself begins with the keyword
BeginsWithKeyword(chunk) == StartsWith(chunk, _setting_keyword)

\* some container of the machine has a property
MachineHasProperties ==
    \/ DOMAIN stack.userChanges.values # {}
    \/ DOMAIN stack.qualityChanges.values # {}
    \/ \E i \in 1..Len(stack.extruders) :
          \/ DOMAIN stack.extruders[i].userChanges.values # {}
          \/ DOMAIN stack.extruders[i].qualityChanges.values # {}

\* C1 as stated: when some chunk has a line that begins with the keyword,
\* wherever in the chunk, what is written is the chunks and nothing else
IdempotentAnyLine ==
    (pc = "done" /\ Writable /\ \E i \in 1..Len(InputChunks) : HasKeywordLine(InputChunks[i]))
        => ret = True /\ Concat(stream) = Concat(InputChunks)

\* C1, amended: when some chunk itself begins with the keyword, write makes
\* one call of stream.write per chunk and no other, and returns True
IdempotentChunkStart ==
    (pc = "done" /\ Writable /\ \E i \in 1..Len(InputChunks) : BeginsWithKeyword(InputChunks[i]))
        => ret = True /\ stream = InputChunks

IdempotentChunkStartWitness ==
    /\ pc = "done" /\ Writable
    /\ Len(InputChunks) = 2
    /\ BeginsWithKeyword(InputChunks[1])
    /\ ~StartsWith(InputChunks[1], prefix)
    /\ ~BeginsWithKeyword(InputChunks[2])
    /\ MachineHasProperties
    /\ stream = InputChunks

\* C4: extruder_quality holds one serialisation per extruder stack, and the
\* j-th one is that of the stack with the j-th smallest position, whatever
\* the order in which stack.extruders holds them
PositionValue(extruder) ==
    LET p == MachineHeap[extruder.metadata]["position"]
    IN  CASE p = "0" -> 0 [] p = "2" -> 2 [] p = "10" -> 10

Rank(extruder) ==
    1 + Cardinality({k \in 1..Len(stack.extruders) :
                       PositionValue(stack.extruders[k]) < PositionValue(extruder)})

SerialisedExtruder(extruder) ==
    LET f == FlatExtruderQuality(extruder, stack, MachineHeap)
    IN  serialize(f.container, f.heap)

ChannelOrder ==
    (pc = "done" /\ ret = True /\ ~has_settings) =>
        LET extruder_quality == Get(data, "extruder_quality", <<>>)
        IN  /\ Len(extruder_quality) = Len(stack.extruders)
            /\ \A i \in 1..Len(stack.extruders) :
                  extruder_quality[Rank(stack.extruders[i])]
                      = SerialisedExtruder(stack.extruders[i])
            /\ \A i, j \in 1..Len(stack.extruders) :
                  Rank(stack.extruders[i]) < Rank(stack.extruders[j])
                      <=> PositionValue(stack.extruders[i]) < PositionValue(stack.extruders[j])

ChannelOrderWitness ==
    /\ pc = "done" /\ ret = True /\ ~has_settings
    /\ Len(stack.extruders) = 2
    /\ PositionValue(stack.extruders[1]) = 10
    /\ PositionValue(stack.extruders[2]) = 2
    /\ Len(data["extruder_quality"]) = 2
    /\ data["extruder_quality"][1] # data["extruder_quality"][2]

\* C5: when no chunk was detected as carrying a block and the flattened
\* containers have no property at all, write returns True and what is in
\* the stream is the chunks, nothing more
EmptySettingsSkip ==
    (pc = "done" /\ Writable /\ ~has_settings /\ all_setting_keys = {})
        => /\ ret = True
           /\ Concat(stream) = Concat(InputChunks)
           /\ SubSeq(stream, 1, Len(InputChunks)) = InputChunks
           /\ \A i \in Len(InputChunks) + 1..Len(stream) : stream[i] = <<>>

EmptySettingsSkipWitness ==
    /\ pc = "done" /\ Writable /\ ~has_settings
    /\ ~MachineHasProperties
    /\ all_setting_keys = {}
    /\ Len(stack.extruders) = 2
    /\ Len(InputChunks) = 2
    /\ Concat(stream) = Concat(InputChunks)
    /\ ret = True

\* C7: in a mode other than text mode, and without chunks for build plate
\* 0, nothing is ever written and write returns False
FailureWritesNothing ==
    (mode # TextMode \/ NoContent) =>
        /\ stream = <<>>
        /\ ret # True
        /\ pc = "done" => ret = False

FailureWritesNothingWitness ==
    /\ pc = "done"
    /\ mode = BinaryMode
    /\ ~NoContent
    /\ InputChunks # <<>>
    /\ ret = False
    /\ stream = <<>>

\* C8 as stated: every failure of write has put a line into the log
DiagnosticsBoth == (pc = "done" /\ ret = False) => Len(log) >= 1

\* C8, amended: write fails exactly in the two cases; the unsupported mode
\* is logged as one error line, the missing chunks are not logged at all
DiagnosticsModeOnly ==
    pc = "done" =>
        /\ ret = False <=> (mode # TextMode \/ NoContent)
        /\ mode # TextMode =>
              /\ Len(log) = 1
              /\ log[1].level = "e"
        /\ (mode = TextMode /\ NoContent) => log = <<>>

DiagnosticsModeOnlyWitness ==
    /\ pc = "done"
    /\ mode = TextMode
    /\ NoContent
    /\ scene.has_gcode_dict
    /\ ret = False
    /\ log = <<>>

\* C10: at every moment of a write the calls of stream.write made so far
\* are the first chunks, in order and once each; the block is written only
\* by the step that ends the write, after all chunks, and when there was
\* something to embed the stream is the chunks followed by one block
WriteOrder ==
    Writable =>
        /\ Len(stream) <= Len(InputChunks) + 1
        /\ \A i \in 1..Min(Len(stream), Len(InputChunks)) : stream[i] = InputChunks[i]
        /\ pc = "loop" => Len(stream) = idx - 1
        /\ Len(stream) > Len(InputChunks) => pc = "done" /\ ~has_settings
        /\ pc = "done" =>
              /\ ret = True
              /\ Len(stream) >= Len(InputChunks)
              /\ (~has_settings /\ all_setting_keys # {}) =>
                    /\ Len(stream) = Len(InputChunks) + 1
                    /\ StartsWith(stream[Len(stream)], prefix)
                    /\ Concat(stream) = Concat(InputChunks) \o stream[Len(stream)]
                    /\ stream[Len(stream)] = Encode(JsonDumps(data))

WriteOrderWitness ==
    /\ pc = "done" /\ Writable /\ ~has_settings
    /\ Len(InputChunks) = 2
    /\ InputChunks[1] # InputChunks[2]
    /\ Len(stream) = 3
    /\ StartsWith(stream[3], prefix)
    /\ ret = True
====
